---- MODULE Spec2Model ----
(***************************************************************************)
(* Model of testingv2.py: extract_invoice_data (sheet selection, grid      *)
(* normalisation, the row/cell scan with its total heuristics, the         *)
(* post-processing block, the error boundary) and the per-file loop of     *)
(* process_all_invoices.                                                   *)
(*                                                                         *)
(* Text is modelled by TLA+ strings and the Python string operations by    *)
(* operators that work character by character (SubSeq on strings).         *)
(* Column indices are zero-based as in the source; Cell(row, c) is the     *)
(* zero-based access row_values[c].                                        *)
(***************************************************************************)
EXTENDS Integers, Sequences, FiniteSets, TLC

(***************************************************************************)
(* Bounds of the model.                                                    *)
(***************************************************************************)
MaxRows == 2
MaxFiles == 2
MaxSheets == 2

(***************************************************************************)
(* Python str operations.                                                  *)
(***************************************************************************)
Digits == {"0", "1", "2", "3", "4", "5", "6", "7", "8", "9"}

LowerCase == "abcdefghijklmnopqrstuvwxyz"

UpperCase == "ABCDEFGHIJKLMNOPQRSTUVWXYZ"

Ch(s, k) == SubSeq(s, k, k)

Min(a, b) == IF a < b THEN a ELSE b

\* str.upper() of one character
UpperCh(c) ==
  IF \E k \in 1..26 : Ch(LowerCase, k) = c
  THEN Ch(UpperCase, CHOOSE k \in 1..26 : Ch(LowerCase, k) = c)
  ELSE c

RECURSIVE Upper(_)
\* str.upper()
Upper(s) == IF s = "" THEN "" ELSE UpperCh(Head(s)) \o Upper(Tail(s))

\* sub in s
Contains(sub, s) ==
  \E k \in 1..(Len(s) - Len(sub) + 1) : SubSeq(s, k, k + Len(sub) - 1) = sub

\* s.startswith(p)
StartsWith(s, p) == Len(s) >= Len(p) /\ SubSeq(s, 1, Len(p)) = p

RECURSIVE LStrip(_)
LStrip(s) == IF s # "" /\ Head(s) = " " THEN LStrip(Tail(s)) ELSE s

RECURSIVE RStrip(_)
RStrip(s) ==
  IF s # "" /\ Ch(s, Len(s)) = " " THEN RStrip(SubSeq(s, 1, Len(s) - 1)) ELSE s

\* str.strip()
Strip(s) == RStrip(LStrip(s))

RECURSIVE Replace(_, _)
\* s.replace(old, ''): every non-overlapping occurrence, left to right
Replace(s, old) ==
  IF s = "" THEN ""
  ELSE IF StartsWith(s, old) THEN Replace(SubSeq(s, Len(old) + 1, Len(s)), old)
  ELSE Head(s) \o Replace(Tail(s), old)

RECURSIVE SplitFirst(_)
\* s.split(' ')[0]
SplitFirst(s) ==
  IF s = "" \/ Head(s) = " " THEN "" ELSE Head(s) \o SplitFirst(Tail(s))

RECURSIVE Join(_)
\* ' '.join(row_values)
Join(row) ==
  IF row = <<>> THEN ""
  ELSE IF Len(row) = 1 THEN row[1]
  ELSE row[1] \o " " \o Join(Tail(row))

AllDigits(s) == \A k \in 1..Len(s) : Ch(s, k) \in Digits

\* re.match(r'[\d,]+\.?\d*', s): only the truth of the match is used; the
\* pattern matches a prefix as soon as one character of [\d,] leads s.
MatchNumber(s) ==
  \E n \in 1..Len(s) : \A k \in 1..n : Ch(s, k) \in Digits \cup {","}

\* re.match(r'\d{4}-\d{2}-\d{2}', s)
MatchDate(s) ==
  /\ Len(s) >= 10
  /\ AllDigits(SubSeq(s, 1, 4))
  /\ Ch(s, 5) = "-"
  /\ AllDigits(SubSeq(s, 6, 7))
  /\ Ch(s, 8) = "-"
  /\ AllDigits(SubSeq(s, 9, 10))

(***************************************************************************)
(* float(text): the decimal literals [sign] digits [. digits] with at      *)
(* least one digit.  Exponents, underscores, inf and nan are not part of   *)
(* the cell texts of this model.                                           *)
(***************************************************************************)
Unsigned(t) == IF t # "" /\ Head(t) \in {"+", "-"} THEN Tail(t) ELSE t

DotPos(t) == IF Contains(".", t) THEN CHOOSE k \in 1..Len(t) : Ch(t, k) = "." /\ \A j \in 1..(k - 1) : Ch(t, j) # "." ELSE Len(t) + 1

IntPart(t) == SubSeq(Unsigned(t), 1, DotPos(Unsigned(t)) - 1)

FracPart(t) == SubSeq(Unsigned(t), DotPos(Unsigned(t)) + 1, Len(Unsigned(t)))

\* float(t) does not raise ValueError
FloatParses(t) ==
  /\ AllDigits(IntPart(t))
  /\ AllDigits(FracPart(t))
  /\ Len(IntPart(t)) + Len(FracPart(t)) > 0

DigitVal(c) == CHOOSE d \in 0..9 : Ch("0123456789", d + 1) = c

RECURSIVE IntVal(_)
IntVal(s) == IF s = "" THEN 0 ELSE 10 * IntVal(SubSeq(s, 1, Len(s) - 1)) + DigitVal(Ch(s, Len(s)))

\* float(t) > 100, for a t that parses
FloatGT100(t) ==
  /\ ~ StartsWith(t, "-")
  /\ \/ IntVal(IntPart(t)) > 100
     \/ IntVal(IntPart(t)) = 100 /\ \E k \in 1..Len(FracPart(t)) : Ch(FracPart(t), k) # "0"


(***************************************************************************)
(* Inputs: workbooks.  A raw cell is what pd.read_excel returns: a missing *)
(* cell (NaN) or a value with its text form.                               *)
(***************************************************************************)
NaN == [isna |-> TRUE, text |-> ""]

S(t) == [isna |-> FALSE, text |-> t]

\* df.astype(str) on one cell: str(NaN) is 'nan'
astype_str(c) == IF c.isna THEN S("nan") ELSE c

\* df.fillna('') on one cell
fillna(c) == IF c.isna THEN S("") ELSE c

\* rows of the six-column invoice template
Rows6 ==
  { <<S("Name  :ACME INDUSTRIES"), NaN, NaN, S("Vendor Code"), NaN, S("VC-102")>>,
    <<S("GSTIN :33ABCDE1234F1Z5"), S(""), S(""), S("PO Date"), S(""), S("PO-77")>>,
    <<S("GSTIN :SHORT"), NaN, NaN, S("Purchase Order No"), NaN, S("2024-06-30 00:00:00")>>,
    <<NaN, NaN, NaN, NaN, NaN, S("SSH/24-25/001")>>,
    <<NaN, NaN, NaN, NaN, NaN, S(" SSH/24-25/002 ")>>,
    <<NaN, NaN, NaN, NaN, NaN, S("2024-07-01 00:00:00")>>,
    <<NaN, NaN, NaN, NaN, NaN, S("2024-08-15")>>,
    <<NaN, NaN, S("GROSS TOTAL AFTER TAX"), NaN, NaN, S("123456.00")>>,
    <<S(""), S("Gross Total After Tax"), S(""), S(""), S("654,321.00"), S("")>>,
    <<S("Total"), S("12,345.50"), S(""), S(""), S(""), S("")>>,
    <<S(""), S(""), S(""), S("Total Amount"), S("50.00"), S("12345.50")>>,
    <<S(""), S(""), S(""), S("900.00"), S("Total"), S("777.00")>>,
    <<S("Value"), S("abc"), S("123abc"), S(",,,"), S(""), S("")>>,
    <<S("GROSS TOTAL AFTER TAX"), S("123456.00"), NaN, NaN, NaN, NaN>>,
    <<S(""), S(""), S("Gross total after tax"), S("1,2,x"), S(""), S("2,500")>> }

\* rows of a two-column sheet
Rows2 ==
  { <<S("GROSS TOTAL AFTER TAX"), S("123456.00")>>,
    <<S("Total"), S("500.00")>>,
    <<S("Name  :ACME INDUSTRIES"), S("abc")>> }

GridsOf(rows) == UNION { [1..n -> rows] : n \in 0..MaxRows }

Grids == GridsOf(Rows6) \cup GridsOf(Rows2)

SheetNames == {"book", "ab", "Sheet1", "Data"}

SheetLists == UNION { [1..n -> SheetNames] : n \in 0..MaxSheets }

Workbook(path, opens, sheetnames, reads, grid) ==
  [path |-> path, opens |-> opens, sheetnames |-> sheetnames, reads |-> reads, grid |-> grid]

\* one workbook per grid, and one workbook per list of sheet names
ScanBooks == { Workbook("inv/a.xlsx", TRUE, <<"book", "Sheet1">>, TRUE, g) : g \in Grids }

SheetBooks ==
  { Workbook("inv/s.xlsx", TRUE, l, TRUE,
             << <<NaN, NaN, NaN, NaN, NaN, S("SSH/24-25/001")>> >>) : l \in SheetLists }

\* the workbooks batches are made of: two that scan, and one for each failure
BatchBooks ==
  { Workbook("inv/ok1.xlsx", TRUE, <<"book", "Sheet1">>, TRUE,
             << <<NaN, NaN, NaN, NaN, NaN, S("SSH/24-25/001")>>,
                <<S("Total"), S("12,345.50"), S(""), S(""), S(""), S("")>> >>),
    Workbook("inv/sub/ok2.xls", TRUE, <<"2024-04">>, TRUE,
             << <<S("GROSS TOTAL AFTER TAX"), S("123456.00")>> >>),
    Workbook("inv/locked.xlsx", FALSE, <<"Sheet1">>, TRUE, << >>),
    Workbook("inv/nosheet.xlsx", TRUE, << >>, TRUE, << >>),
    Workbook("inv/broken.xlsx", TRUE, <<"Sheet1">>, FALSE,
             << <<S("Total"), S("500.00")>> >>) }

Batches == UNION { [1..n -> BatchBooks] : n \in 0..MaxFiles }

(***************************************************************************)
(* The record of extract_invoice_data.                                     *)
(***************************************************************************)
TextFields ==
  {"invoice_number", "invoice_date", "company_name", "vendor_code", "po_number",
   "po_date", "gstin", "total_value", "gross_total_after_tax"}

RECURSIVE basename(_)
\* os.path.basename
basename(path) ==
  IF Contains("/", path) THEN basename(Tail(path)) ELSE path

\* the result dictionary of lines 35-48
NewResult(file_path, sheet) ==
  [file_name |-> basename(file_path), sheet_name |-> sheet,
   invoice_number |-> "", invoice_date |-> "", company_name |-> "",
   vendor_code |-> "", po_number |-> "", po_date |-> "", gstin |-> "",
   total_value |-> "", gross_total_after_tax |-> "",
   extraction_status |-> <<"Success">>]

\* the dictionary returned by the except clause
ErrorResult(file_path, e) ==
  [file_name |-> basename(file_path), sheet_name |-> "Error",
   invoice_number |-> "", invoice_date |-> "", company_name |-> "",
   vendor_code |-> "", po_number |-> "", po_date |-> "", gstin |-> "",
   total_value |-> "", gross_total_after_tax |-> "",
   extraction_status |-> <<"Error: ", e>>]

\* a local that is not bound yet
NoResult ==
  [file_name |-> "", sheet_name |-> "",
   invoice_number |-> "", invoice_date |-> "", company_name |-> "",
   vendor_code |-> "", po_number |-> "", po_date |-> "", gstin |-> "",
   total_value |-> "", gross_total_after_tax |-> "",
   extraction_status |-> << >>]

(***************************************************************************)
(* Sheet selection.                                                        *)
(***************************************************************************)
RECURSIVE FirstDataSheetAnyName(_, _)
\* as FirstDataSheet, without the test for the sheet named book
FirstDataSheetAnyName(names, k) ==
  IF k > Len(names) THEN ""
  ELSE IF Len(names[k]) > 3 THEN names[k]
  ELSE FirstDataSheetAnyName(names, k + 1)

RECURSIVE FirstDataSheet(_, _)
\* the for loop over sheet_names; "" stands for None
FirstDataSheet(names, k) ==
  IF k > Len(names) THEN ""
  ELSE IF names[k] # "book" /\ Len(names[k]) > 3 THEN names[k]
  ELSE FirstDataSheet(names, k + 1)

(***************************************************************************)
(* The heuristics of the scan.                                             *)
(***************************************************************************)
Cell(row, c) == row[c + 1]

total_keywords == <<"TOTAL VALUE", "TOTAL AMOUNT", "TOTAL", "AMOUNT", "VALUE">>

\* as InvoiceHead, without the test that invoice_date is still empty
InvoiceHeadLastDate(row, r) ==
  IF Len(row) > 5
  THEN LET cell_value == Strip(Cell(row, 5))
           r1 == IF Contains("SSH", cell_value) /\ Contains("/", cell_value)
                 THEN [r EXCEPT !.invoice_number = cell_value]
                 ELSE r
       IN IF MatchDate(cell_value)
          THEN [r1 EXCEPT !.invoice_date = SplitFirst(cell_value)]
          ELSE r1
  ELSE r

\* invoice number and invoice date from column 5
InvoiceHead(row, r) ==
  IF Len(row) > 5
  THEN LET cell_value == Strip(Cell(row, 5))
           r1 == IF Contains("SSH", cell_value) /\ Contains("/", cell_value)
                 THEN [r EXCEPT !.invoice_number = cell_value]
                 ELSE r
       IN IF MatchDate(cell_value) /\ r1.invoice_date = ""
          THEN [r1 EXCEPT !.invoice_date = SplitFirst(cell_value)]
          ELSE r1
  ELSE r

RECURSIVE GrossAdjacentUnvalidated(_, _, _, _)
\* as GrossAdjacent, without the float() validation
GrossAdjacentUnvalidated(row, next_col, stop, gross) ==
  IF next_col >= stop THEN gross
  ELSE LET next_value == Strip(Cell(row, next_col))
       IN IF /\ MatchNumber(next_value)
             /\ Len(next_value) > 2
          THEN next_value
          ELSE GrossAdjacentUnvalidated(row, next_col + 1, stop, gross)

RECURSIVE GrossAdjacent(_, _, _, _)
\* the value right of a GROSS TOTAL AFTER TAX label: next_col runs up to stop
GrossAdjacent(row, next_col, stop, gross) ==
  IF next_col >= stop THEN gross
  ELSE LET next_value == Strip(Cell(row, next_col))
       IN IF /\ MatchNumber(next_value)
             /\ Len(next_value) > 2
             /\ FloatParses(Replace(next_value, ","))
          THEN next_value
          ELSE GrossAdjacent(row, next_col + 1, stop, gross)

GrossLabel(row, col_idx, r) ==
  LET cell_str == Strip(Cell(row, col_idx))
  IN IF Contains("GROSS TOTAL AFTER", Upper(cell_str)) /\ Contains("TAX", Upper(cell_str))
     THEN [r EXCEPT !.gross_total_after_tax =
             GrossAdjacent(row, col_idx + 1, Min(Len(row), col_idx + 4), @)]
     ELSE r

RECURSIVE TotalAdjacent(_, _, _, _)
\* the value right of a total keyword: next_col runs up to stop
TotalAdjacent(row, next_col, stop, total) ==
  IF next_col >= stop THEN total
  ELSE LET next_value == Strip(Cell(row, next_col))
       IN IF /\ MatchNumber(next_value)
             /\ Len(next_value) > 2
             /\ FloatParses(Replace(next_value, ","))
             /\ FloatGT100(Replace(next_value, ","))
             /\ total = ""
          THEN next_value
          ELSE TotalAdjacent(row, next_col + 1, stop, total)

RECURSIVE TotalLabel(_, _, _, _)
\* the loop over total_keywords, from the k-th keyword on
TotalLabel(row, col_idx, k, r) ==
  IF k > Len(total_keywords) THEN r
  ELSE LET cell_str == Strip(Cell(row, col_idx))
       IN IF Contains(total_keywords[k], Upper(cell_str)) /\ ~ Contains("GROSS", Upper(cell_str))
          THEN LET r1 == [r EXCEPT !.total_value =
                            TotalAdjacent(row, col_idx + 1, Min(Len(row), col_idx + 4), @)]
               IN IF r1.total_value # "" THEN r1 ELSE TotalLabel(row, col_idx, k + 1, r1)
          ELSE TotalLabel(row, col_idx, k + 1, r)

\* numbers in the last three columns of a row with keywords
TrailingColumns(row, col_idx, r) ==
  LET cell_str == Strip(Cell(row, col_idx))
  IN IF /\ col_idx >= Len(row) - 3
        /\ MatchNumber(cell_str)
        /\ Len(cell_str) > 2
        /\ FloatParses(Replace(cell_str, ","))
        /\ FloatGT100(Replace(cell_str, ","))
     THEN LET row_text == Upper(Join(row))
          IN IF /\ Contains("GROSS", row_text)
                /\ Contains("TOTAL", row_text)
                /\ r.gross_total_after_tax = ""
             THEN [r EXCEPT !.gross_total_after_tax = cell_str]
             ELSE IF /\ \E keyword \in {"TOTAL", "AMOUNT", "VALUE"} : Contains(keyword, row_text)
                     /\ r.total_value = ""
             THEN [r EXCEPT !.total_value = cell_str]
             ELSE r
     ELSE r

\* one iteration of the loop over the columns of a row
CellStep(row, col_idx, r) ==
  TrailingColumns(row, col_idx, TotalLabel(row, col_idx, 1, GrossLabel(row, col_idx, r)))

\* company name and GSTIN from column 0
NameAndGstin(row, r) ==
  IF Len(row) > 0
  THEN LET cell_value == Strip(Cell(row, 0))
           company_name == Strip(Replace(cell_value, "Name  :"))
           gstin == Strip(Replace(cell_value, "GSTIN :"))
           r1 == IF StartsWith(cell_value, "Name  :") /\ company_name # ""
                 THEN [r EXCEPT !.company_name = company_name]
                 ELSE r
       IN IF StartsWith(cell_value, "GSTIN :") /\ gstin # "" /\ Len(gstin) > 10
          THEN [r1 EXCEPT !.gstin = gstin]
          ELSE r1
  ELSE r

\* vendor code and purchase order from columns 3 and 5
VendorAndPO(row, r) ==
  IF Len(row) > 5 /\ Len(row) > 3
  THEN LET label == Strip(Cell(row, 3))
           value == Strip(Cell(row, 5))
       IN IF Contains("Vendor Code", label) /\ value # ""
          THEN [r EXCEPT !.vendor_code = value]
          ELSE IF Contains("PO Date", label) /\ value # ""
          THEN [r EXCEPT !.po_number = value]
          ELSE IF Contains("Purchase Order No", label) /\ value # "" /\ MatchDate(value)
          THEN [r EXCEPT !.po_date = SplitFirst(value)]
          ELSE r
  ELSE r

\* as PostFields, without the condition on the two totals
PostFieldsAlways(row, r) == VendorAndPO(row, NameAndGstin(row, r))

\* the block after the row loop: it runs once, on the row_values the loop left
PostFields(row, r) ==
  IF r.gross_total_after_tax # "" /\ r.total_value = ""
  THEN VendorAndPO(row, NameAndGstin(row, r))
  ELSE r

(***************************************************************************)
(* State.                                                                  *)
(***************************************************************************)
VARIABLES
  excel_files,            \* process_all_invoices: the workbooks of the batch
  i,                      \* process_all_invoices: position in excel_files, from 1
  all_results,            \* process_all_invoices: the records so far
  successful_extractions, \* process_all_invoices: count of Success records
  pc,                     \* the statement control is at
  sheet_names,            \* extract_invoice_data: wb.sheetnames
  target_sheet,           \* extract_invoice_data: the sheet to scan
  df,                     \* extract_invoice_data: the grid of text cells
  index,                  \* extract_invoice_data: row of df in the loop, from 0
  row_values,             \* extract_invoice_data: the cells of that row
  col_idx,                \* extract_invoice_data: column in the loop, from 0
  result,                 \* extract_invoice_data: the record
  e                       \* extract_invoice_data: message of the raised exception

vars ==
  <<excel_files, i, all_results, successful_extractions, pc, sheet_names,
    target_sheet, df, index, row_values, col_idx, result, e>>

batch == <<excel_files, all_results, successful_extractions>>

file_path == excel_files[i].path

Init ==
  /\ excel_files \in { <<b>> : b \in ScanBooks \cup SheetBooks } \cup Batches
  /\ i = 1
  /\ all_results = << >>
  /\ successful_extractions = 0
  /\ pc = "loop"
  /\ sheet_names = << >>
  /\ target_sheet = ""
  /\ df = << >>
  /\ index = -1
  /\ row_values = << >>
  /\ col_idx = 0
  /\ result = NoResult
  /\ e = ""

(***************************************************************************)
(* process_all_invoices: the loop calls extract_invoice_data on a file.    *)
(***************************************************************************)
NextFile ==
  /\ pc = "loop"
  /\ i <= Len(excel_files)
  /\ pc' = "open"
  /\ sheet_names' = << >>
  /\ target_sheet' = ""
  /\ df' = << >>
  /\ index' = -1
  /\ row_values' = << >>
  /\ col_idx' = 0
  /\ result' = NoResult
  /\ e' = ""
  /\ UNCHANGED <<batch, i>>

(***************************************************************************)
(* extract_invoice_data.                                                   *)
(***************************************************************************)
\* load_workbook, and the choice of target_sheet
SelectSheet ==
  /\ pc = "open"
  /\ IF ~ excel_files[i].opens
     THEN /\ e' = "File is not a zip file"
          /\ pc' = "except"
          /\ UNCHANGED <<sheet_names, target_sheet>>
     ELSE /\ sheet_names' = excel_files[i].sheetnames
          /\ IF FirstDataSheet(sheet_names', 1) # ""
             THEN /\ target_sheet' = FirstDataSheet(sheet_names', 1)
                  /\ pc' = "read"
                  /\ UNCHANGED e
             ELSE IF Len(sheet_names') > 0
             THEN /\ target_sheet' = sheet_names'[1]
                  /\ pc' = "read"
                  /\ UNCHANGED e
             ELSE /\ e' = "list index out of range"
                  /\ pc' = "except"
                  /\ UNCHANGED target_sheet
  /\ UNCHANGED <<batch, i, df, index, row_values, col_idx, result>>

\* pd.read_excel, the result dictionary, astype(str).fillna('')
ReadExcel ==
  /\ pc = "read"
  /\ IF ~ excel_files[i].reads
     THEN /\ e' = "Excel file format cannot be determined"
          /\ pc' = "except"
          /\ UNCHANGED <<df, result>>
     ELSE /\ result' = NewResult(file_path, target_sheet)
          /\ df' = [n \in 1..Len(excel_files[i].grid) |->
                      [c \in 1..Len(excel_files[i].grid[n]) |->
                         fillna(astype_str(excel_files[i].grid[n][c])).text]]
          /\ pc' = "row"
          /\ UNCHANGED e
  /\ UNCHANGED <<batch, i, sheet_names, target_sheet, index, row_values, col_idx>>

\* the next row of df.iterrows(): row_values and the column-5 fields
RowHead ==
  /\ pc = "row"
  /\ index + 1 < Len(df)
  /\ index' = index + 1
  /\ row_values' = df[index' + 1]
  /\ result' = InvoiceHead(row_values', result)
  /\ col_idx' = 0
  /\ pc' = IF Len(row_values') > 0 THEN "cell" ELSE "row"
  /\ UNCHANGED <<batch, i, sheet_names, target_sheet, df, e>>

\* one column of the row: the three heuristics for the totals
ScanCell ==
  /\ pc = "cell"
  /\ result' = CellStep(row_values, col_idx, result)
  /\ col_idx' = col_idx + 1
  /\ pc' = IF col_idx' < Len(row_values) THEN "cell" ELSE "row"
  /\ UNCHANGED <<batch, i, sheet_names, target_sheet, df, index, row_values, e>>

\* after the last row: the post-processing block, then return result
PostProcess ==
  /\ pc = "row"
  /\ index + 1 >= Len(df)
  /\ IF result.gross_total_after_tax # "" /\ result.total_value = "" /\ index < 0
     THEN /\ e' = "name 'row_values' is not defined"
          /\ pc' = "except"
          /\ UNCHANGED result
     ELSE /\ result' = PostFields(row_values, result)
          /\ pc' = "return"
          /\ UNCHANGED e
  /\ UNCHANGED <<batch, i, sheet_names, target_sheet, df, index, row_values, col_idx>>

\* except Exception as e: return the error dictionary
Except ==
  /\ pc = "except"
  /\ result' = ErrorResult(file_path, e)
  /\ pc' = "return"
  /\ UNCHANGED <<batch, i, sheet_names, target_sheet, df, index, row_values, col_idx, e>>

\* as Collect, but a record is kept only when the extraction succeeded
CollectOnlySuccess ==
  /\ pc = "return"
  /\ all_results' =
       IF result.extraction_status = <<"Success">>
       THEN Append(all_results, result)
       ELSE all_results
  /\ successful_extractions' =
       IF result.extraction_status = <<"Success">>
       THEN successful_extractions + 1
       ELSE successful_extractions
  /\ i' = i + 1
  /\ pc' = "loop"
  /\ UNCHANGED <<excel_files, sheet_names, target_sheet, df, index, row_values, col_idx, result, e>>

(***************************************************************************)
(* process_all_invoices: the record of the file joins all_results.         *)
(***************************************************************************)
Collect ==
  /\ pc = "return"
  /\ all_results' = Append(all_results, result)
  /\ successful_extractions' =
       IF result.extraction_status = <<"Success">>
       THEN successful_extractions + 1
       ELSE successful_extractions
  /\ i' = i + 1
  /\ pc' = "loop"
  /\ UNCHANGED <<excel_files, sheet_names, target_sheet, df, index, row_values, col_idx, result, e>>

\* after the loop: the report; an empty all_results has no columns to count
Finish ==
  /\ pc = "loop"
  /\ i > Len(excel_files)
  /\ pc' = IF Len(all_results) = 0 THEN "raised" ELSE "done"
  /\ UNCHANGED <<batch, i, sheet_names, target_sheet, df, index, row_values, col_idx, result, e>>

Next ==
  \/ NextFile
  \/ SelectSheet
  \/ ReadExcel
  \/ RowHead
  \/ ScanCell
  \/ PostProcess
  \/ Except
  \/ Collect
  \/ Finish

Spec == Init /\ [][Next]_vars

(***************************************************************************)
(* Properties.                                                             *)
(***************************************************************************)
Scanning == pc \in {"row", "cell"}

Succeeded == pc = "return" /\ result.extraction_status = <<"Success">>

IsError(r) == Len(r.extraction_status) = 2 /\ r.extraction_status[1] = "Error: "

\* a text that float() accepts once its commas are removed
Numeric(t) == FloatParses(Replace(t, ","))

\* a text the scan takes as a candidate number
NumberCell(t) == MatchNumber(t) /\ Len(t) > 2 /\ Numeric(t)

Columns(row) == 0..(Len(row) - 1)

\* the columns up to three to the right of column c
RightOf(row, c) == { n \in Columns(row) : c < n /\ n <= c + 3 }

IsGrossLabel(t) == Contains("GROSS TOTAL AFTER", Upper(t)) /\ Contains("TAX", Upper(t))

IsTotalLabel(t) ==
  /\ \E k \in 1..Len(total_keywords) : Contains(total_keywords[k], Upper(t))
  /\ ~ Contains("GROSS", Upper(t))

\* a row with a gross-total label and a number within three cells to its right
GrossRow(row) ==
  \E c \in Columns(row) :
    /\ IsGrossLabel(Strip(Cell(row, c)))
    /\ \E n \in RightOf(row, c) : NumberCell(Strip(Cell(row, n)))

\* the pairs (label column, value column) of the label-adjacent heuristic
LabelPairs(row) ==
  { p \in Columns(row) \X Columns(row) :
      /\ IsTotalLabel(Strip(Cell(row, p[1])))
      /\ p[2] \in RightOf(row, p[1])
      /\ NumberCell(Strip(Cell(row, p[2])))
      /\ FloatGT100(Replace(Strip(Cell(row, p[2])), ",")) }

\* the first of them in column order
FirstLabelPair(row) ==
  CHOOSE p \in LabelPairs(row) :
    \A q \in LabelPairs(row) : p[1] < q[1] \/ (p[1] = q[1] /\ p[2] <= q[2])

\* C1: during one scan a text field that is non-empty is not changed any more
C1_SetAtMostOnce ==
  [][Scanning => \A f \in TextFields : result[f] # "" => result'[f] = result[f]]_vars

\* C2: while the cells of a row with a gross-total label followed by a number
\* are scanned, nothing is committed to total_value
C2_GrossRowNeverTotal ==
  [][(pc = "cell" /\ GrossRow(row_values)) => result'.total_value = result.total_value]_vars

VendorRow(row) ==
  /\ Len(row) >= 6
  /\ Contains("Vendor Code", Strip(Cell(row, 3)))
  /\ Strip(Cell(row, 5)) # ""

FirstRow(P(_)) == CHOOSE n \in 1..Len(df) : P(df[n]) /\ \A m \in 1..(n - 1) : ~ P(df[m])

\* C3: after the scan vendor_code is the trimmed column-5 text of the first row
\* whose column 3 holds the Vendor Code label and whose column 5 is not empty
C3_VendorCodeAnyRow ==
  (Succeeded /\ \E n \in 1..Len(df) : VendorRow(df[n]))
    => result.vendor_code = Strip(Cell(df[FirstRow(VendorRow)], 5))

\* the text after a label that leads column 0, trimmed
Remainder(row, label) == Strip(SubSeq(Strip(Cell(row, 0)), Len(label) + 1, Len(Strip(Cell(row, 0)))))

NameRow(row) ==
  Len(row) > 0 /\ StartsWith(Strip(Cell(row, 0)), "Name  :") /\ Remainder(row, "Name  :") # ""

GstinRow(row) ==
  Len(row) > 0 /\ StartsWith(Strip(Cell(row, 0)), "GSTIN :") /\ Len(Remainder(row, "GSTIN :")) > 10

\* C4: after the scan company_name is the trimmed remainder of a column-0 text
\* that starts with "Name  :", and gstin is the trimmed remainder of a column-0
\* text that starts with "GSTIN :" exactly when that remainder is longer than 10
C4_NameAndGstinAnyRow ==
  Succeeded =>
    /\ (\E n \in 1..Len(df) : NameRow(df[n]))
         => \E n \in 1..Len(df) : NameRow(df[n]) /\ result.company_name = Remainder(df[n], "Name  :")
    /\ (\E n \in 1..Len(df) : GstinRow(df[n]))
         => \E n \in 1..Len(df) : GstinRow(df[n]) /\ result.gstin = Remainder(df[n], "GSTIN :")
    /\ (~ \E n \in 1..Len(df) : GstinRow(df[n])) => result.gstin = ""

Qualifies(name) == name # "book" /\ Len(name) > 3

\* C5: target_sheet is the first sheet name that is not "book" and is longer
\* than 3, or the first name when there is none; an empty list of names gives
\* no target and a record whose status begins with "Error:"
C5_SheetSelection ==
  LET names == excel_files[i].sheetnames
  IN /\ pc \in {"read", "row", "cell"} =>
          /\ Len(names) > 0
          /\ IF \E k \in 1..Len(names) : Qualifies(names[k])
             THEN \E k \in 1..Len(names) :
                    /\ target_sheet = names[k]
                    /\ Qualifies(names[k])
                    /\ \A j \in 1..(k - 1) : ~ Qualifies(names[j])
             ELSE target_sheet = names[1]
     /\ Scanning => result.sheet_name = target_sheet
     /\ (pc = "return" /\ excel_files[i].opens /\ names = << >>) =>
          target_sheet = "" /\ IsError(result)

C5_Witness ==
  /\ pc = "read"
  /\ sheet_names = <<"book", "Sheet1">>
  /\ target_sheet = "Sheet1"

\* a workbook on which extract_invoice_data raises
Raises(book) == ~ book.opens \/ book.sheetnames = << >> \/ ~ book.reads

RECURSIVE ScanColumns(_, _, _)
ScanColumns(row, c, r) == IF c >= Len(row) THEN r ELSE ScanColumns(row, c + 1, CellStep(row, c, r))

RECURSIVE ScanRows(_, _, _)
ScanRows(grid, n, r) ==
  IF n > Len(grid) THEN r
  ELSE ScanRows(grid, n + 1, ScanColumns(grid[n], 0, InvoiceHead(grid[n], r)))

TextGrid(grid) ==
  [n \in 1..Len(grid) |-> [c \in 1..Len(grid[n]) |-> fillna(astype_str(grid[n][c])).text]]

\* the record of a workbook that is processed alone
Alone(book) ==
  LET grid == TextGrid(book.grid)
      sheet == IF \E k \in 1..Len(book.sheetnames) : Qualifies(book.sheetnames[k])
               THEN book.sheetnames[CHOOSE k \in 1..Len(book.sheetnames) :
                      /\ Qualifies(book.sheetnames[k])
                      /\ \A j \in 1..(k - 1) : ~ Qualifies(book.sheetnames[j])]
               ELSE book.sheetnames[1]
      r == ScanRows(grid, 1, NewResult(book.path, sheet))
  IN IF grid = << >> THEN r ELSE PostFields(grid[Len(grid)], r)

\* C6: all_results holds one record per processed file, in file order; the
\* record of a file that raises has an "Error:" status and nine empty fields,
\* and the record of any other file is the one the file gives when alone
C6_FailureIsolation ==
  /\ Len(all_results) = i - 1
  /\ pc \in {"done", "raised"} => Len(all_results) = Len(excel_files)
  /\ \A k \in 1..Len(all_results) :
       /\ all_results[k].file_name = basename(excel_files[k].path)
       /\ IF Raises(excel_files[k])
          THEN /\ IsError(all_results[k])
               /\ \A f \in TextFields : all_results[k][f] = ""
          ELSE all_results[k] = Alone(excel_files[k])
  /\ successful_extractions = Cardinality({ k \in 1..Len(all_results) : ~ Raises(excel_files[k]) })

C6_Witness ==
  /\ pc = "done"
  /\ Len(excel_files) = 2
  /\ ~ excel_files[1].reads
  /\ IsError(all_results[1])
  /\ all_results[2].extraction_status = <<"Success">>
  /\ all_results[2].invoice_number # ""

\* C7: total_value, once set, stays; and in a row where the label-adjacent
\* heuristic has a candidate, the value total_value takes is that candidate
C7_LabelBeforeFallback ==
  [][Scanning =>
       /\ result.total_value # "" => result'.total_value = result.total_value
       /\ (pc = "cell" /\ result.total_value = "" /\ result'.total_value # ""
             /\ LabelPairs(row_values) # {})
            => result'.total_value = Strip(Cell(row_values, FirstLabelPair(row_values)[2]))]_vars

IsCellOf(t, grid) == \E n \in 1..Len(grid) : \E c \in 1..Len(grid[n]) : Strip(grid[n][c]) = t

\* C8: total_value and gross_total_after_tax are empty or the text of a cell of
\* the grid that parses as a number once its commas are removed; a workbook
\* that is read without error is scanned to the status Success
C8_NumericFields ==
  /\ \A f \in {"total_value", "gross_total_after_tax"} :
       result[f] # "" => Numeric(result[f]) /\ IsCellOf(result[f], df)
  /\ (pc = "return" /\ ~ Raises(excel_files[i])) => result.extraction_status = <<"Success">>

C8_Witness ==
  /\ Succeeded
  /\ IsCellOf("123abc", df)
  /\ IsCellOf(",,,", df)
  /\ result.total_value = "12,345.50"

\* the text before the first space
DatePortion(t) ==
  IF Contains(" ", t)
  THEN SubSeq(t, 1, (CHOOSE k \in 1..Len(t) : Ch(t, k) = " " /\ ~ Contains(" ", SubSeq(t, 1, k - 1))) - 1)
  ELSE t

DateRow(row) == Len(row) > 5 /\ MatchDate(Strip(Cell(row, 5)))

\* C9: after the scan invoice_date is the date portion of the column-5 text of
\* the topmost row whose column 5 begins with YYYY-MM-DD, and empty without one
C9_InvoiceDate ==
  Succeeded =>
    IF \E n \in 1..Len(df) : DateRow(df[n])
    THEN result.invoice_date = DatePortion(Strip(Cell(df[FirstRow(DateRow)], 5)))
    ELSE result.invoice_date = ""

C9_Witness ==
  /\ Succeeded
  /\ Len(df) = 2
  /\ Len(df[1]) = 6
  /\ Cell(df[1], 5) = "2024-07-01 00:00:00"
  /\ Cell(df[2], 5) = "2024-08-15"
  /\ result.invoice_number = ""
  /\ result.invoice_date = "2024-07-01"

PostFieldNames == {"company_name", "gstin", "vendor_code", "po_number", "po_date"}

\* what the last row offers for a field of the post-processing block
FromLastRow(f) ==
  LET last == df[Len(df)]
  IN CASE f = "company_name" -> Strip(Replace(Strip(Cell(last, 0)), "Name  :"))
       [] f = "gstin" -> Strip(Replace(Strip(Cell(last, 0)), "GSTIN :"))
       [] f = "po_date" -> DatePortion(Strip(Cell(last, 5)))
       [] OTHER -> Strip(Cell(last, 5))

\* C10: after a successful scan the five fields of the post-processing block
\* are non-empty only if gross_total_after_tax is set and total_value is not,
\* and then hold values of the last row; otherwise all five are empty
C10_PostFieldsOnlyLastRow ==
  Succeeded =>
    /\ \A f \in PostFieldNames :
         result[f] # "" =>
           /\ result.gross_total_after_tax # ""
           /\ result.total_value = ""
           /\ Len(df) > 0
           /\ result[f] = FromLastRow(f)
    /\ (result.total_value # "" \/ result.gross_total_after_tax = "")
         => \A f \in PostFieldNames : result[f] = ""

C10_Witness ==
  /\ Succeeded
  /\ Len(df) = 2
  /\ result.gross_total_after_tax = "123456.00"
  /\ result.total_value = ""
  /\ result.company_name = "ACME INDUSTRIES"
  /\ result.vendor_code = "VC-102"

====
